---- MODULE Spec2Model ----
(***************************************************************************)
(* Cache simulator (src/main.cpp): a set-associative cache with LRU/FIFO   *)
(* replacement, write-allocate / no-write-allocate and write-through /     *)
(* write-back policies, replaying a trace of loads and stores and          *)
(* accumulating hit/miss counters and a cycle count.                       *)
(*                                                                         *)
(* The counters and the logical clock are C++ int / uint32_t / long long.  *)
(* Every run of the model processes at most MaxAccesses accesses, so no    *)
(* value comes near 2^31 and the fixed widths are not modelled.            *)
(***************************************************************************)
EXTENDS Integers, Sequences, FiniteSets, TLC

VARIABLES
  args,        \* argv as handed to main
  config,      \* CacheConfig
  cache,       \* vector<Set> of simulateCache
  globalTime,  \* the logical clock of simulateCache
  stats,       \* Stats
  trace,       \* the accesses of the input stream processed so far
  last,        \* the locals of the last handleLoad / handleStore call
  pc           \* where the program is

vars == <<args, config, cache, globalTime, stats, trace, last, pc>>

(***************************************************************************)
(* Bounds of the model.                                                    *)
(***************************************************************************)
\* accesses read from the input stream in one run
MaxAccesses == 4
\* the addresses of the stream are the 4-byte words 0 .. MaxWord
MaxWord == 2
\* blocks of the sets handed to findEvictionBlock on its own (SpecEvict)
MaxEvictBlocks == 3
\* timestamps of the blocks handed to findEvictionBlock on its own
MaxEvictTime == 1

Addresses == {4 * w : w \in 0..MaxWord}

(***************************************************************************)
(* Bit operations on unsigned values.                                      *)
(***************************************************************************)
Pow2(k) == 2 ^ k

ShiftRight(x, k) == x \div Pow2(k)

ShiftLeft(x, k) == x * Pow2(k)

RECURSIVE BitAnd(_, _)
BitAnd(a, b) ==
  IF a = 0 \/ b = 0 THEN 0
  ELSE (a % 2) * (b % 2) + 2 * BitAnd(a \div 2, b \div 2)

\* (int)std::log2((double)n) for n >= 1
RECURSIVE Log2(_)
Log2(n) == IF n <= 1 THEN 0 ELSE 1 + Log2(n \div 2)

isPowerOfTwo(n) == n > 0 /\ BitAnd(n, n - 1) = 0

(***************************************************************************)
(* Data model.                                                             *)
(***************************************************************************)
\* Block::Block()
NewBlock ==
  [valid |-> FALSE, dirty |-> FALSE, tag |-> 0,
   arrivalTime |-> 0, lastAccessTime |-> 0]

\* Set::Set(numBlocks); positions are 0 .. numBlocks-1 as in the vector
NewSet(numBlocks) == [b \in 0..(numBlocks - 1) |-> NewBlock]

Size(set) == Cardinality(DOMAIN set)

\* the mutant: Stats::Stats() without the initialiser of totalCycles
NewStatsCyclesUnset ==
  [totalLoads |-> 0, totalStores |-> 0, loadHits |-> 0, loadMisses |-> 0,
   storeHits |-> 0, storeMisses |-> 0, totalCycles |-> 1]

\* Stats::Stats()
NewStats ==
  [totalLoads |-> 0, totalStores |-> 0, loadHits |-> 0, loadMisses |-> 0,
   storeHits |-> 0, storeMisses |-> 0, totalCycles |-> 0]

\* a CacheConfig with its derived bit widths (lines 186-188)
MakeConfig(numSets, numBlocks, blockSize, wa, wt, lru) ==
  [numSets |-> numSets, numBlocks |-> numBlocks, blockSize |-> blockSize,
   writeAllocate |-> wa, writeThrough |-> wt, useLru |-> lru,
   offsetBits |-> Log2(blockSize), indexBits |-> Log2(numSets),
   tagBits |-> 32 - Log2(blockSize) - Log2(numSets)]

\* the value of config, cache and last before they are assigned (never read)
None == [none |-> TRUE]

(***************************************************************************)
(* parseArguments: TRUE and the configuration, or FALSE.                   *)
(***************************************************************************)
parseArguments(a) ==
  IF a.argc # 7 THEN [ok |-> FALSE, config |-> None]
  ELSE IF ~a.numeric THEN [ok |-> FALSE, config |-> None]
  ELSE IF ~isPowerOfTwo(a.sets) \/ a.sets <= 0 THEN [ok |-> FALSE, config |-> None]
  ELSE IF ~isPowerOfTwo(a.blocks) \/ a.blocks <= 0 THEN [ok |-> FALSE, config |-> None]
  ELSE IF ~isPowerOfTwo(a.bytes) \/ a.bytes < 4 THEN [ok |-> FALSE, config |-> None]
  ELSE IF a.writeAlloc \notin {"write-allocate", "no-write-allocate"}
    THEN [ok |-> FALSE, config |-> None]
  ELSE IF a.writeThrough \notin {"write-through", "write-back"}
    THEN [ok |-> FALSE, config |-> None]
  ELSE IF a.eviction \notin {"lru", "fifo"} THEN [ok |-> FALSE, config |-> None]
  ELSE LET wa == a.writeAlloc = "write-allocate"
           wt == a.writeThrough = "write-through"
           lru == a.eviction = "lru"
       IN IF ~wa /\ ~wt THEN [ok |-> FALSE, config |-> None]
          ELSE [ok |-> TRUE,
                config |-> MakeConfig(a.sets, a.blocks, a.bytes, wa, wt, lru)]

(***************************************************************************)
(* extractAddressParts                                                     *)
(***************************************************************************)
\* the mutant: the tag taken without shifting the index bits out
extractAddressPartsNoShift(address, cfg) ==
  LET addrWithoutOffset == ShiftRight(address, cfg.offsetBits)
      indexMask == IF cfg.indexBits = 0 THEN 0
                   ELSE ShiftLeft(1, cfg.indexBits) - 1
  IN [index |-> BitAnd(addrWithoutOffset, indexMask),
      tag |-> addrWithoutOffset]

\* the mutant: the index masked out of the address before the offset is dropped
extractAddressPartsMaskFirst(address, cfg) ==
  LET addrWithoutOffset == ShiftRight(address, cfg.offsetBits)
      indexMask == IF cfg.indexBits = 0 THEN 0
                   ELSE ShiftLeft(1, cfg.indexBits) - 1
  IN [index |-> BitAnd(address, indexMask),
      tag |-> ShiftRight(addrWithoutOffset, cfg.indexBits)]

extractAddressParts(address, cfg) ==
  LET addrWithoutOffset == ShiftRight(address, cfg.offsetBits)
      indexMask == IF cfg.indexBits = 0 THEN 0
                   ELSE ShiftLeft(1, cfg.indexBits) - 1
  IN [index |-> BitAnd(addrWithoutOffset, indexMask),
      tag |-> ShiftRight(addrWithoutOffset, cfg.indexBits)]

(***************************************************************************)
(* findBlockWithTag: the first valid block with the tag, or -1.            *)
(***************************************************************************)
\* the mutant: `return -1` inside the loop, only the first position is looked at
findBlockWithTagFirstOnly(set, tag, i) ==
  IF i >= Size(set) THEN -1
  ELSE IF set[i].valid /\ set[i].tag = tag THEN i
  ELSE -1

RECURSIVE findBlockWithTagFrom(_, _, _)
findBlockWithTagFrom(set, tag, i) ==
  IF i >= Size(set) THEN -1
  ELSE IF set[i].valid /\ set[i].tag = tag THEN i
  ELSE findBlockWithTagFrom(set, tag, i + 1)

findBlockWithTag(set, tag) == findBlockWithTagFrom(set, tag, 0)

(***************************************************************************)
(* findEvictionBlock: an invalid block if any, else the victim.            *)
(***************************************************************************)
\* the mutant: the first loop without its early return, the last invalid
\* position is chosen
RECURSIVE firstInvalidLast(_, _)
firstInvalidLast(set, i) ==
  IF i >= Size(set) THEN -1
  ELSE LET later == firstInvalidLast(set, i + 1)
       IN IF later # -1 THEN later
          ELSE IF ~set[i].valid THEN i
          ELSE -1

\* the first loop (lines 224-228): the first invalid position, or -1
RECURSIVE firstInvalidFrom(_, _)
firstInvalidFrom(set, i) ==
  IF i >= Size(set) THEN -1
  ELSE IF ~set[i].valid THEN i
  ELSE firstInvalidFrom(set, i + 1)

\* the mutant: the two keys exchanged
evictionKeySwapped(blk, useLru) ==
  IF useLru THEN blk.arrivalTime ELSE blk.lastAccessTime

evictionKey(blk, useLru) ==
  IF useLru THEN blk.lastAccessTime ELSE blk.arrivalTime

\* the mutant: `key <= best` in place of `key < best`
RECURSIVE victimScanLastMin(_, _, _, _, _)
victimScanLastMin(set, useLru, i, best, victimIndex) ==
  IF i >= Size(set) THEN victimIndex
  ELSE LET key == evictionKey(set[i], useLru)
       IN IF key <= best THEN victimScanLastMin(set, useLru, i + 1, key, i)
          ELSE victimScanLastMin(set, useLru, i + 1, best, victimIndex)

\* the mutant: `key > best`, the newest block is the victim
RECURSIVE victimScanNewest(_, _, _, _, _)
victimScanNewest(set, useLru, i, best, victimIndex) ==
  IF i >= Size(set) THEN victimIndex
  ELSE LET key == evictionKey(set[i], useLru)
       IN IF key > best THEN victimScanNewest(set, useLru, i + 1, key, i)
          ELSE victimScanNewest(set, useLru, i + 1, best, victimIndex)

\* the second loop (lines 235-242)
RECURSIVE victimScan(_, _, _, _, _)
victimScan(set, useLru, i, best, victimIndex) ==
  IF i >= Size(set) THEN victimIndex
  ELSE LET key == evictionKey(set[i], useLru)
       IN IF key < best THEN victimScan(set, useLru, i + 1, key, i)
          ELSE victimScan(set, useLru, i + 1, best, victimIndex)

findEvictionBlock(set, useLru) ==
  LET inv == firstInvalidFrom(set, 0)
  IN IF inv # -1 THEN inv
     ELSE victimScan(set, useLru, 1, evictionKey(set[0], useLru), 0)

(***************************************************************************)
(* touchOnHit and installBlock: the block and the clock after the call.    *)
(***************************************************************************)
\* the mutant: a hit never refreshes lastAccessTime
touchOnHitNever(blk, useLru, time) == [blk |-> blk, globalTime |-> time]

\* the mutant: touchOnHit without the test of useLru
touchOnHitFifoToo(blk, useLru, time) ==
  [blk |-> [blk EXCEPT !.lastAccessTime = time], globalTime |-> time + 1]

touchOnHit(blk, useLru, time) ==
  IF useLru
  THEN [blk |-> [blk EXCEPT !.lastAccessTime = time], globalTime |-> time + 1]
  ELSE [blk |-> blk, globalTime |-> time]

\* the mutant: installBlock without the assignment to arrivalTime
installBlockNoArrival(dst, tag, time) ==
  [blk |-> [dst EXCEPT !.valid = TRUE, !.tag = tag, !.dirty = FALSE,
                       !.lastAccessTime = time],
   globalTime |-> time + 1]

\* the mutant: installBlock without globalTime++
installBlockNoTick(dst, tag, time) ==
  [blk |-> [dst EXCEPT !.valid = TRUE, !.tag = tag, !.dirty = FALSE,
                       !.arrivalTime = time, !.lastAccessTime = time],
   globalTime |-> time]

\* the mutant: installBlock without dst.valid = true
installBlockInvalid(dst, tag, time) ==
  [blk |-> [dst EXCEPT !.tag = tag, !.dirty = FALSE,
                       !.arrivalTime = time, !.lastAccessTime = time],
   globalTime |-> time + 1]

installBlock(dst, tag, time) ==
  [blk |-> [dst EXCEPT !.valid = TRUE, !.tag = tag, !.dirty = FALSE,
                       !.arrivalTime = time, !.lastAccessTime = time],
   globalTime |-> time + 1]

(***************************************************************************)
(* handleLoad.  Each handler yields the cache, the statistics and the      *)
(* clock after the call, with the handler's locals tag, index, i (the      *)
(* position found, or -1) and victim (the position installed into, or -1). *)
(***************************************************************************)
\* the mutant: the hit path without loadHits++
loadHitNoCount(c, tag, index, i, cfg, st, time) ==
  LET t == touchOnHit(c[index][i], cfg.useLru, time)
  IN [cache |-> [c EXCEPT ![index][i] = t.blk],
      stats |-> [st EXCEPT !.totalCycles = @ + 1],
      globalTime |-> t.globalTime,
      tag |-> tag, index |-> index, i |-> i, victim |-> -1]

\* the hit path (lines 272-278)
loadHit(c, tag, index, i, cfg, st, time) ==
  LET t == touchOnHit(c[index][i], cfg.useLru, time)
  IN [cache |-> [c EXCEPT ![index][i] = t.blk],
      stats |-> [st EXCEPT !.loadHits = @ + 1, !.totalCycles = @ + 1],
      globalTime |-> t.globalTime,
      tag |-> tag, index |-> index, i |-> i, victim |-> -1]

\* the mutant: the write-back of the victim charged for any valid victim
loadMissChargeValid(c, tag, index, cfg, st, time) ==
  LET set == c[index]
      blocksToTransfer == cfg.blockSize \div 4
      victim == findEvictionBlock(set, cfg.useLru)
      writeBack == IF set[victim].valid /\ ~cfg.writeThrough
                   THEN 100 * blocksToTransfer ELSE 0
      ins == installBlock(set[victim], tag, time)
  IN [cache |-> [c EXCEPT ![index][victim] = ins.blk],
      stats |-> [st EXCEPT !.loadMisses = @ + 1,
                           !.totalCycles = @ + 1 + 100 * blocksToTransfer + writeBack],
      globalTime |-> ins.globalTime,
      tag |-> tag, index |-> index, i |-> -1, victim |-> victim]

\* the miss path (lines 280-292)
loadMiss(c, tag, index, cfg, st, time) ==
  LET set == c[index]
      blocksToTransfer == cfg.blockSize \div 4
      victim == findEvictionBlock(set, cfg.useLru)
      writeBack == IF set[victim].valid /\ set[victim].dirty /\ ~cfg.writeThrough
                   THEN 100 * blocksToTransfer ELSE 0
      ins == installBlock(set[victim], tag, time)
  IN [cache |-> [c EXCEPT ![index][victim] = ins.blk],
      stats |-> [st EXCEPT !.loadMisses = @ + 1,
                           !.totalCycles = @ + 1 + 100 * blocksToTransfer + writeBack],
      globalTime |-> ins.globalTime,
      tag |-> tag, index |-> index, i |-> -1, victim |-> victim]

\* parts and i are the handler's locals: each is computed once and then read
handleLoad(c, address, cfg, st, time) ==
  LET st1 == [st EXCEPT !.totalLoads = @ + 1]
  IN CHOOSE r \in UNION {
        {IF i # -1
         THEN loadHit(c, parts.tag, parts.index, i, cfg, st1, time)
         ELSE loadMiss(c, parts.tag, parts.index, cfg, st1, time)
           : i \in {findBlockWithTag(c[parts.index], parts.tag)}}
             : parts \in {extractAddressParts(address, cfg)}} : TRUE

(***************************************************************************)
(* handleStore                                                             *)
(***************************************************************************)
\* the mutant: a store hit marks the block dirty under write-through too
storeHitAlwaysDirty(c, tag, index, i, cfg, st, time) ==
  LET t == touchOnHit(c[index][i], cfg.useLru, time)
      blk == [t.blk EXCEPT !.dirty = TRUE]
      through == IF cfg.writeThrough THEN 100 ELSE 0
  IN [cache |-> [c EXCEPT ![index][i] = blk],
      stats |-> [st EXCEPT !.storeHits = @ + 1, !.totalCycles = @ + 1 + through],
      globalTime |-> t.globalTime,
      tag |-> tag, index |-> index, i |-> i, victim |-> -1]

\* the hit path (lines 306-319)
storeHit(c, tag, index, i, cfg, st, time) ==
  LET t == touchOnHit(c[index][i], cfg.useLru, time)
      blk == IF cfg.writeThrough THEN t.blk ELSE [t.blk EXCEPT !.dirty = TRUE]
      through == IF cfg.writeThrough THEN 100 ELSE 0
  IN [cache |-> [c EXCEPT ![index][i] = blk],
      stats |-> [st EXCEPT !.storeHits = @ + 1, !.totalCycles = @ + 1 + through],
      globalTime |-> t.globalTime,
      tag |-> tag, index |-> index, i |-> i, victim |-> -1]

\* the mutant: the installed block is left clean under write-back
storeMissAllocateClean(c, tag, index, cfg, st, time) ==
  LET set == c[index]
      blocksToTransfer == cfg.blockSize \div 4
      victim == findEvictionBlock(set, cfg.useLru)
      writeBack == IF set[victim].valid /\ set[victim].dirty /\ ~cfg.writeThrough
                   THEN 100 * blocksToTransfer ELSE 0
      ins == installBlock(set[victim], tag, time)
      through == IF cfg.writeThrough THEN 100 ELSE 0
  IN [cache |-> [c EXCEPT ![index][victim] = ins.blk],
      stats |-> [st EXCEPT !.storeMisses = @ + 1,
                           !.totalCycles = @ + 1 + 100 * blocksToTransfer
                                             + writeBack + through],
      globalTime |-> ins.globalTime,
      tag |-> tag, index |-> index, i |-> -1, victim |-> victim]

\* the mutant: the installed block marked dirty under write-through too
storeMissAllocateAlwaysDirty(c, tag, index, cfg, st, time) ==
  LET set == c[index]
      blocksToTransfer == cfg.blockSize \div 4
      victim == findEvictionBlock(set, cfg.useLru)
      writeBack == IF set[victim].valid /\ set[victim].dirty /\ ~cfg.writeThrough
                   THEN 100 * blocksToTransfer ELSE 0
      ins == installBlock(set[victim], tag, time)
      blk == [ins.blk EXCEPT !.dirty = TRUE]
      through == IF cfg.writeThrough THEN 100 ELSE 0
  IN [cache |-> [c EXCEPT ![index][victim] = blk],
      stats |-> [st EXCEPT !.storeMisses = @ + 1,
                           !.totalCycles = @ + 1 + 100 * blocksToTransfer
                                             + writeBack + through],
      globalTime |-> ins.globalTime,
      tag |-> tag, index |-> index, i |-> -1, victim |-> victim]

\* the miss path under write-allocate (lines 322, 324-347)
storeMissAllocate(c, tag, index, cfg, st, time) ==
  LET set == c[index]
      blocksToTransfer == cfg.blockSize \div 4
      victim == findEvictionBlock(set, cfg.useLru)
      writeBack == IF set[victim].valid /\ set[victim].dirty /\ ~cfg.writeThrough
                   THEN 100 * blocksToTransfer ELSE 0
      ins == installBlock(set[victim], tag, time)
      blk == [ins.blk EXCEPT !.dirty = ~cfg.writeThrough]
      through == IF cfg.writeThrough THEN 100 ELSE 0
  IN [cache |-> [c EXCEPT ![index][victim] = blk],
      stats |-> [st EXCEPT !.storeMisses = @ + 1,
                           !.totalCycles = @ + 1 + 100 * blocksToTransfer
                                             + writeBack + through],
      globalTime |-> ins.globalTime,
      tag |-> tag, index |-> index, i |-> -1, victim |-> victim]

\* the mutant: the direct write charged per word of the block
storeMissNoAllocateFetch(c, tag, index, cfg, st, time) ==
  [cache |-> c,
   stats |-> [st EXCEPT !.storeMisses = @ + 1,
                        !.totalCycles = @ + 1 + 100 * (cfg.blockSize \div 4)],
   globalTime |-> time,
   tag |-> tag, index |-> index, i |-> -1, victim |-> -1]

\* the miss path under no-write-allocate (lines 322, 348-351)
storeMissNoAllocate(c, tag, index, cfg, st, time) ==
  [cache |-> c,
   stats |-> [st EXCEPT !.storeMisses = @ + 1, !.totalCycles = @ + 1 + 100],
   globalTime |-> time,
   tag |-> tag, index |-> index, i |-> -1, victim |-> -1]

handleStore(c, address, cfg, st, time) ==
  LET st1 == [st EXCEPT !.totalStores = @ + 1]
  IN CHOOSE r \in UNION {
        {IF i # -1
         THEN storeHit(c, parts.tag, parts.index, i, cfg, st1, time)
         ELSE IF cfg.writeAllocate
         THEN storeMissAllocate(c, parts.tag, parts.index, cfg, st1, time)
         ELSE storeMissNoAllocate(c, parts.tag, parts.index, cfg, st1, time)
           : i \in {findBlockWithTag(c[parts.index], parts.tag)}}
             : parts \in {extractAddressParts(address, cfg)}} : TRUE

(***************************************************************************)
(* The program: main parses the arguments and runs simulateCache, which    *)
(* builds the cache and replays the input stream line by line.             *)
(***************************************************************************)
ArgSets == {1, 2, 3}
ArgBlocks == {0, 1, 2}
ArgBytes == {2, 4, 8}
ArgWriteAlloc == {"write-allocate", "no-write-allocate", "allocate"}
ArgWriteThrough == {"write-through", "write-back", "through"}
ArgEviction == {"lru", "fifo", "random"}

ArgVectors ==
  [argc : {6, 7}, numeric : BOOLEAN, sets : ArgSets, blocks : ArgBlocks,
   bytes : ArgBytes, writeAlloc : ArgWriteAlloc,
   writeThrough : ArgWriteThrough, eviction : ArgEviction]

Init ==
  /\ args \in ArgVectors
  /\ config = None
  /\ cache = None
  /\ globalTime = 0
  /\ stats = NewStats
  /\ trace = << >>
  /\ last = None
  /\ pc = "main"

\* main, lines 91-96, parseArguments returning true
ParseOk ==
  /\ pc = "main"
  /\ parseArguments(args).ok
  /\ config' = parseArguments(args).config
  /\ pc' = "simulate"
  /\ UNCHANGED <<args, cache, globalTime, stats, trace, last>>

\* main, lines 94-96, parseArguments returning false: main returns 1
ParseFail ==
  /\ pc = "main"
  /\ ~parseArguments(args).ok
  /\ pc' = "exit1"
  /\ UNCHANGED <<args, config, cache, globalTime, stats, trace, last>>

\* simulateCache, lines 357-363
SimulateBegin ==
  /\ pc = "simulate"
  /\ cache' = [s \in 0..(config.numSets - 1) |-> NewSet(config.numBlocks)]
  /\ globalTime' = 0
  /\ pc' = "loop"
  /\ UNCHANGED <<args, config, stats, trace, last>>

Access(op, address, r) ==
  /\ cache' = r.cache
  /\ stats' = r.stats
  /\ globalTime' = r.globalTime
  /\ trace' = Append(trace, [op |-> op, address |-> address])
  /\ last' = [op |-> op, address |-> address, tag |-> r.tag,
              index |-> r.index, i |-> r.i, victim |-> r.victim]
  /\ UNCHANGED <<args, config, pc>>

\* a line "l <address> <n>" (lines 367-394)
Load(address) ==
  /\ pc = "loop"
  /\ Len(trace) < MaxAccesses
  /\ \E r \in {handleLoad(cache, address, config, stats, globalTime)} :
       Access("l", address, r)

\* a line "s <address> <n>" (lines 367-397)
Store(address) ==
  /\ pc = "loop"
  /\ Len(trace) < MaxAccesses
  /\ \E r \in {handleStore(cache, address, config, stats, globalTime)} :
       Access("s", address, r)

\* an empty or malformed line is skipped (lines 368-391)
SkipLine ==
  /\ pc = "loop"
  /\ UNCHANGED vars

\* end of the stream: simulateCache returns, main prints and returns 0
EndOfStream ==
  /\ pc = "loop"
  /\ pc' = "exit0"
  /\ UNCHANGED <<args, config, cache, globalTime, stats, trace, last>>

Next ==
  \/ ParseOk
  \/ ParseFail
  \/ SimulateBegin
  \/ \E a \in Addresses : Load(a)
  \/ \E a \in Addresses : Store(a)
  \/ SkipLine
  \/ EndOfStream

Spec == Init /\ [][Next]_vars

(***************************************************************************)
(* simulateCache called on its own, with a configuration that did not come *)
(* through parseArguments (any combination of the three policy flags).     *)
(***************************************************************************)
Geometries == {1, 2} \X {1, 2} \X {4, 8}

CoreConfigs ==
  {MakeConfig(g[1], g[2], g[3], wa, wt, lru) :
     g \in Geometries, wa \in BOOLEAN, wt \in BOOLEAN, lru \in BOOLEAN}

InitCore ==
  /\ args = None
  /\ config \in CoreConfigs
  /\ cache = None
  /\ globalTime = 0
  /\ stats = NewStats
  /\ trace = << >>
  /\ last = None
  /\ pc = "simulate"

NextCore ==
  \/ SimulateBegin
  \/ \E a \in Addresses : Load(a)
  \/ \E a \in Addresses : Store(a)
  \/ SkipLine
  \/ EndOfStream

SpecCore == InitCore /\ [][NextCore]_vars

(***************************************************************************)
(* findEvictionBlock called on its own, on any set of up to MaxEvictBlocks *)
(* blocks with timestamps 0 .. MaxEvictTime.                               *)
(***************************************************************************)
EvictBlocks ==
  [valid : BOOLEAN, dirty : {FALSE}, tag : {0},
   arrivalTime : 0..MaxEvictTime, lastAccessTime : 0..MaxEvictTime]

EvictSets(n) == [0..(n - 1) -> EvictBlocks]

InitEvict ==
  /\ args = None
  /\ \E n \in 1..MaxEvictBlocks, lru \in BOOLEAN :
       /\ config = MakeConfig(1, n, 4, TRUE, FALSE, lru)
       /\ cache \in [{0} -> EvictSets(n)]
  /\ globalTime = 0
  /\ stats = NewStats
  /\ trace = << >>
  /\ last = None
  /\ pc = "evict"

\* a call findEvictionBlock(set, useLru)
FindEviction ==
  /\ pc = "evict"
  /\ last' = [victim |-> findEvictionBlock(cache[0], config.useLru)]
  /\ pc' = "evicted"
  /\ UNCHANGED <<args, config, cache, globalTime, stats, trace>>

NextEvict == FindEviction

SpecEvict == InitEvict /\ [][NextEvict]_vars

(***************************************************************************)
(* extractAddressParts called on its own, on the address built from a tag, *)
(* an index and an offset.  Tags are 0 .. MaxTag and the MaxTag + 1        *)
(* largest tags whose address stays below 2^31.                            *)
(***************************************************************************)
MaxTag == 3

RECURSIVE BitOr(_, _)
BitOr(a, b) ==
  IF a = 0 THEN b
  ELSE IF b = 0 THEN a
  ELSE (IF a % 2 = 1 \/ b % 2 = 1 THEN 1 ELSE 0) + 2 * BitOr(a \div 2, b \div 2)

DecodeConfigs ==
  {MakeConfig(ns, 1, bs, TRUE, TRUE, TRUE) : ns \in {1, 2, 4}, bs \in {4, 8, 16}}

DecodeTags(cfg) ==
  (0..MaxTag) \cup {Pow2(cfg.tagBits - 1) - 1 - k : k \in 0..MaxTag}

InitDecode ==
  /\ args = None
  /\ config \in DecodeConfigs
  /\ cache = None
  /\ globalTime = 0
  /\ stats = NewStats
  /\ trace = << >>
  /\ \E t \in DecodeTags(config), x \in 0..(config.numSets - 1),
        o \in 0..(config.blockSize - 1) :
       last = [tag |-> t, index |-> x, offset |-> o]
  /\ pc = "decode"

\* a call extractAddressParts(address, config, tag, index) on the address
\* (tag << (indexBits + offsetBits)) | (index << offsetBits) | offset
Decode ==
  /\ pc = "decode"
  /\ LET address ==
           BitOr(BitOr(ShiftLeft(last.tag, config.indexBits + config.offsetBits),
                       ShiftLeft(last.index, config.offsetBits)),
                 last.offset)
     IN last' = [tag |-> last.tag, index |-> last.index, offset |-> last.offset,
                 address |-> address,
                 decoded |-> extractAddressParts(address, config)]
  /\ pc' = "decoded"
  /\ UNCHANGED <<args, config, cache, globalTime, stats, trace>>

NextDecode == Decode

SpecDecode == InitDecode /\ [][NextDecode]_vars

(***************************************************************************)
(* Properties.                                                             *)
(***************************************************************************)
\* this step processed one access of the stream
Stepped == Len(trace') = Len(trace) + 1

\* the tags of the valid blocks of a set
Resident(set) == {set[i].tag : i \in {j \in DOMAIN set : set[j].valid}}

\* tag and index of the k-th access of the stream
Decoded(k) == extractAddressParts(trace[k].address, config)

\* the k-th access installs its block when it misses
Allocating(k) == trace[k].op = "l" \/ config.writeAllocate

C1_Sums ==
  /\ stats.loadHits + stats.loadMisses = stats.totalLoads
  /\ stats.storeHits + stats.storeMisses = stats.totalStores

C1_Step ==
  Stepped =>
    IF last'.op = "l"
    THEN /\ stats'.totalLoads = stats.totalLoads + 1
         /\ \/ /\ stats'.loadHits = stats.loadHits + 1
               /\ stats'.loadMisses = stats.loadMisses
            \/ /\ stats'.loadHits = stats.loadHits
               /\ stats'.loadMisses = stats.loadMisses + 1
         /\ stats'.totalStores = stats.totalStores
         /\ stats'.storeHits = stats.storeHits
         /\ stats'.storeMisses = stats.storeMisses
    ELSE /\ stats'.totalStores = stats.totalStores + 1
         /\ \/ /\ stats'.storeHits = stats.storeHits + 1
               /\ stats'.storeMisses = stats.storeMisses
            \/ /\ stats'.storeHits = stats.storeHits
               /\ stats'.storeMisses = stats.storeMisses + 1
         /\ stats'.totalLoads = stats.totalLoads
         /\ stats'.loadHits = stats.loadHits
         /\ stats'.loadMisses = stats.loadMisses

\* C1: after every processed access loadHits + loadMisses = totalLoads and
\* storeHits + storeMisses = totalStores; a load adds one to totalLoads and to
\* exactly one of loadHits / loadMisses, a store adds one to totalStores and
\* to exactly one of storeHits / storeMisses.
C1_CountersBalance == []C1_Sums /\ [][C1_Step]_vars

\* a run with a load hit, a load miss, a store hit and a store miss
C1_Witness ==
  /\ stats.loadHits >= 1
  /\ stats.loadMisses >= 1
  /\ stats.storeHits >= 1
  /\ stats.storeMisses >= 1

\* C2: findEvictionBlock returns the lowest invalid position if the set has
\* an invalid block; otherwise the position of the minimal key
\* (lastAccessTime under LRU, arrivalTime under FIFO), the lowest such
\* position when several blocks share the minimal key.
C2_FindEvictionBlock ==
  pc = "evicted" =>
    LET set == cache[0]
        r == last.victim
        invalid == {i \in DOMAIN set : ~set[i].valid}
        key(i) == IF config.useLru THEN set[i].lastAccessTime
                  ELSE set[i].arrivalTime
    IN /\ r \in DOMAIN set
       /\ IF invalid # {}
          THEN r \in invalid /\ \A j \in invalid : r <= j
          ELSE \A j \in DOMAIN set :
                 key(r) <= key(j) /\ (key(j) = key(r) => r <= j)

\* a full set whose minimal key is shared by two positions, the result not
\* being position 0
C2_Witness ==
  /\ pc = "evicted"
  /\ \A i \in DOMAIN cache[0] : cache[0][i].valid
  /\ last.victim = 1
  /\ \E j \in DOMAIN cache[0] :
       /\ j > 1
       /\ ~config.useLru
       /\ cache[0][j].arrivalTime = cache[0][1].arrivalTime

C3_Scenario ==
  /\ Len(trace) = 4
  /\ config.numBlocks = 2
  /\ \A k \in 1..4 : Allocating(k) /\ Decoded(k).index = Decoded(1).index
  /\ Decoded(3).tag = Decoded(1).tag
  /\ Decoded(2).tag # Decoded(1).tag
  /\ Decoded(4).tag \notin {Decoded(1).tag, Decoded(2).tag}

\* C3: from an empty 2-way set, allocating accesses to blocks A, B, A, C of
\* the set leave A and C resident under LRU (B evicted) and B and C resident
\* under FIFO (A evicted).
C3_LruFifoDivergence ==
  C3_Scenario =>
    Resident(cache[Decoded(1).index]) =
      IF config.useLru THEN {Decoded(1).tag, Decoded(4).tag}
      ELSE {Decoded(2).tag, Decoded(4).tag}

\* the scenario under LRU, with B evicted
C3_Witness ==
  /\ C3_Scenario
  /\ config.useLru
  /\ Decoded(2).tag \notin Resident(cache[Decoded(1).index])

\* cycles charged by this step
Charged == stats'.totalCycles - stats.totalCycles

\* the cost of transferring one block to or from memory
Transfer == 100 * (config.blockSize \div 4)

C4_Step ==
  (Stepped /\ last'.op = "l") =>
    LET idx == last'.index
        accessed == extractAddressParts(last'.address, config)
    IN IF last'.i # -1
       THEN LET old == cache[idx][last'.i]
                new == cache'[idx][last'.i]
            IN /\ Charged = 1
               /\ new.valid = old.valid
               /\ new.dirty = old.dirty
               /\ new.tag = old.tag
               /\ new.arrivalTime = old.arrivalTime
       ELSE /\ Charged \in {1 + Transfer, 1 + Transfer + Transfer}
            /\ cache'[idx][last'.victim] =
                 [valid |-> TRUE, dirty |-> FALSE, tag |-> accessed.tag,
                  arrivalTime |-> globalTime, lastAccessTime |-> globalTime]

\* C4: a load hit adds 1 cycle and leaves valid, dirty, tag and arrivalTime
\* of the hit block unchanged; a load miss adds 1 + 100 * (blockSize/4) for
\* the fetch (plus the dirty-victim surcharge, if any) and leaves the chosen
\* slot valid, clean, with the accessed tag and arrivalTime =
\* lastAccessTime = the clock before the increment.
C4_Load == [][C4_Step]_vars

\* a load hit on a block installed by a load miss after the clock had moved
C4_Witness ==
  /\ Len(trace) >= 2
  /\ last.op = "l"
  /\ last.i # -1
  /\ cache[last.index][last.i].arrivalTime >= 1
  /\ stats.loadMisses >= 2

C5_Step ==
  (Stepped /\ last'.op = "s" /\ last'.i # -1) =>
    LET old == cache[last'.index][last'.i]
        new == cache'[last'.index][last'.i]
    IN /\ new.valid = old.valid
       /\ new.tag = old.tag
       /\ new.arrivalTime = old.arrivalTime
       /\ IF config.writeThrough
          THEN Charged = 101 /\ new.dirty = old.dirty
          ELSE Charged = 1 /\ new.dirty

\* C5: a store hit adds 1 cycle and sets dirty under write-back, adds 101
\* cycles and leaves dirty unchanged under write-through; valid, tag and
\* arrivalTime of the block are unchanged in both cases.
C5_StoreHit == [][C5_Step]_vars

\* a write-back store hit on a block that a load had installed clean
C5_Witness ==
  /\ Len(trace) = 2
  /\ trace[1].op = "l"
  /\ last.op = "s"
  /\ last.i # -1
  /\ ~config.writeThrough
  /\ cache[last.index][last.i].dirty

C6_Step ==
  (Stepped /\ last'.i = -1 /\ (last'.op = "l" \/ config.writeAllocate)) =>
    LET old == cache[last'.index][last'.victim]
        base == 1 + Transfer
                  + (IF last'.op = "s" /\ config.writeThrough THEN 100 ELSE 0)
    IN /\ Charged \in {base, base + Transfer}
       /\ (Charged = base + Transfer)
            <=> (old.valid /\ old.dirty /\ ~config.writeThrough)

\* C6: on every allocating miss the extra 100 * (blockSize/4) cycles are
\* charged if and only if the slot chosen held a valid, dirty block and the
\* policy is write-back.
C6_DirtyVictimSurcharge == [][C6_Step]_vars

\* a write-back store made a block dirty and the next load evicted it
C6_Witness ==
  /\ Len(trace) = 2
  /\ config.numBlocks = 1
  /\ ~config.writeThrough
  /\ trace[1].op = "s"
  /\ last.op = "l"
  /\ last.i = -1
  /\ Decoded(1).index = Decoded(2).index
  /\ stats.totalCycles = 2 * (1 + Transfer) + Transfer

C7_Step ==
  (Stepped /\ last'.op = "s" /\ last'.i = -1 /\ config.writeAllocate) =>
    LET asLoad == handleLoad(cache, last'.address, config, stats, globalTime)
        loadCost == asLoad.stats.totalCycles - stats.totalCycles
        old == cache[last'.index][last'.victim]
        new == cache'[last'.index][last'.victim]
        surcharge == IF old.valid /\ old.dirty /\ ~config.writeThrough
                     THEN Transfer ELSE 0
    IN /\ loadCost = 1 + Transfer + surcharge
       /\ last'.victim = asLoad.victim
       /\ new.valid
       /\ new.tag = extractAddressParts(last'.address, config).tag
       /\ IF config.writeThrough
          THEN Charged = loadCost + 100 /\ ~new.dirty
          ELSE Charged = loadCost /\ new.dirty

\* C7: a store miss under write-allocate installs the block and costs what
\* a load miss costs (1 + 100 * (blockSize/4), plus the dirty-victim
\* surcharge when it applies); under write-through it costs 100 more and the
\* block ends clean, under write-back it costs nothing more and the block
\* ends dirty.
C7_StoreMissAllocate == [][C7_Step]_vars

\* a write-back store miss that installed a dirty block
C7_Witness ==
  /\ Len(trace) >= 1
  /\ last.op = "s"
  /\ last.i = -1
  /\ config.writeAllocate
  /\ ~config.writeThrough
  /\ cache[last.index][last.victim].dirty

C8_Step ==
  (Stepped /\ last'.op = "s" /\ last'.i = -1 /\ ~config.writeAllocate) =>
    /\ Charged = 101
    /\ cache' = cache
    /\ globalTime' = globalTime
    /\ stats' = [stats EXCEPT !.totalStores = @ + 1, !.storeMisses = @ + 1,
                              !.totalCycles = @ + 101]

\* C8: under no-write-allocate a store miss adds 101 cycles whatever
\* blockSize is and changes no block and not the clock; only totalStores,
\* storeMisses and totalCycles change.
C8_StoreMissNoAllocate == [][C8_Step]_vars

\* a no-write-allocate store miss with 8-byte blocks and a block resident
C8_Witness ==
  /\ Len(trace) >= 2
  /\ last.op = "s"
  /\ last.i = -1
  /\ ~config.writeAllocate
  /\ config.blockSize = 8
  /\ stats.loadMisses >= 1

\* numSets=1, numBlocks=2, blockSize=4, write-allocate, write-back, LRU and
\* the stream load 0x0, load 0x4, load 0x8
C9_Scenario ==
  /\ trace = << [op |-> "l", address |-> 0], [op |-> "l", address |-> 4],
                [op |-> "l", address |-> 8] >>
  /\ config = MakeConfig(1, 2, 4, TRUE, FALSE, TRUE)

\* the third load evicted the block of 0x0 (tag 0, position 0)
C9_EvictedFirst ==
  /\ last.i = -1
  /\ last.victim = 0
  /\ cache[0][0].valid /\ cache[0][0].tag = 2
  /\ cache[0][1].valid /\ cache[0][1].tag = 1

\* C9 as stated: the scenario ends with totalCycles = 203, the third load
\* having evicted the block of 0x0.
C9_Cycles203 == C9_Scenario => (stats.totalCycles = 203 /\ C9_EvictedFirst)

\* C9: the scenario ends with totalCycles = 303 (three misses of 101 cycles,
\* no dirty-eviction cost), the third load having evicted the block of 0x0.
C9_Cycles303 == C9_Scenario => (stats.totalCycles = 303 /\ C9_EvictedFirst)

\* the scenario has run
C9_Witness == C9_Scenario /\ stats.loadMisses = 3

\* C10: simulateCache processes no access under a configuration with
\* writeAllocate = false and writeThrough = false.
C10_CoreRejectsIllegal ==
  (~config.writeAllocate /\ ~config.writeThrough) => trace = << >>

\* simulateCache has built the cache
Running == pc \in {"loop", "exit0"}

\* C11: in every reachable state no two valid blocks of a set hold the same
\* tag, so at most one position of a set matches a tag.
C11_UniqueTags ==
  Running =>
    \A s \in DOMAIN cache : \A i, j \in DOMAIN cache[s] :
      (/\ cache[s][i].valid
       /\ cache[s][j].valid
       /\ cache[s][i].tag = cache[s][j].tag) => i = j

\* a full 2-way set after a hit on its second position
C11_Witness ==
  /\ Len(trace) >= 3
  /\ last.i = 1
  /\ \A i \in DOMAIN cache[last.index] : cache[last.index][i].valid

\* C12: the address built from a tag, an index < numSets and an offset <
\* blockSize decodes back to that tag and that index, and to index 0 when
\* indexBits = 0.
C12_DecodeRoundTrip ==
  pc = "decoded" =>
    /\ last.decoded.tag = last.tag
    /\ last.decoded.index = last.index
    /\ (config.indexBits = 0 => last.decoded.index = 0)

\* a decoded address with nonzero tag, index and offset
C12_Witness ==
  /\ pc = "decoded"
  /\ last.tag > MaxTag
  /\ last.index > 0
  /\ last.offset > 0
  /\ last.address > last.tag

\* C13: a run over an empty access stream ends with every Stats field zero.
C13_EmptyStream ==
  (pc = "exit0" /\ trace = << >>) =>
    /\ stats.totalLoads = 0
    /\ stats.totalStores = 0
    /\ stats.loadHits = 0
    /\ stats.loadMisses = 0
    /\ stats.storeHits = 0
    /\ stats.storeMisses = 0
    /\ stats.totalCycles = 0

\* the end of a run that processed no access, with a cache of several blocks
C13_Witness ==
  /\ pc = "exit0"
  /\ trace = << >>
  /\ config.numSets = 2
  /\ config.numBlocks = 2

\* the access of this step installed a block
Installed == last'.i = -1 /\ (last'.op = "l" \/ config.writeAllocate)

C14_Step ==
  /\ globalTime' >= globalTime
  /\ Stepped =>
       globalTime' = globalTime
                       + (IF Installed \/ (last'.i # -1 /\ config.useLru)
                          THEN 1 ELSE 0)

\* C14: the clock never decreases; it advances by exactly one on each install
\* and on each hit under LRU and is unchanged by a hit under FIFO and by a
\* store miss under no-write-allocate.
C14_Clock == [][C14_Step]_vars

\* a FIFO hit has left the clock behind the number of accesses
C14_Witness ==
  /\ Len(trace) >= 2
  /\ ~config.useLru
  /\ last.i # -1
  /\ globalTime >= 1
  /\ globalTime < Len(trace)

C15_Fifo ==
  (Running /\ ~config.useLru) =>
    \A s \in DOMAIN cache : \A b \in DOMAIN cache[s] :
      cache[s][b].valid => cache[s][b].lastAccessTime = cache[s][b].arrivalTime

C15_Step ==
  Stepped =>
    \A s \in DOMAIN cache : \A b \in DOMAIN cache[s] :
      LET old == cache[s][b]
          new == cache'[s][b]
          installed == s = last'.index /\ b = last'.victim
          hit == s = last'.index /\ b = last'.i
      IN /\ installed => new.arrivalTime = globalTime
         /\ ~installed => new.arrivalTime = old.arrivalTime
         /\ (~installed /\ ~(hit /\ config.useLru))
              => new.lastAccessTime = old.lastAccessTime

\* C15: arrivalTime is written only by the install and kept by every hit;
\* lastAccessTime is changed by a hit only under LRU, so under FIFO
\* lastAccessTime = arrivalTime for every valid block.
C15_Timestamps == []C15_Fifo /\ [][C15_Step]_vars

\* a FIFO hit on the block that arrived first, after a later install
C15_Witness ==
  /\ Len(trace) >= 3
  /\ ~config.useLru
  /\ last.i # -1
  /\ globalTime >= 2
  /\ cache[last.index][last.i].arrivalTime = 0

(***************************************************************************)
(* The reference cache of C16: each set an ordered list of tags, most      *)
(* recently used first under LRU, most recently arrived first under FIFO;  *)
(* the last element is evicted when the set is full.                       *)
(***************************************************************************)
RefRemove(list, tag) == SelectSeq(list, LAMBDA t : t # tag)

RefElems(list) == {list[k] : k \in 1..Len(list)}

\* an access with this tag to the set kept as this list
RefAccess(list, op, tag, cfg) ==
  LET full == Len(list) = cfg.numBlocks
  IN IF tag \in RefElems(list)
     THEN [list |-> IF cfg.useLru THEN <<tag>> \o RefRemove(list, tag) ELSE list,
           hit |-> TRUE, evicted |-> -1]
     ELSE IF op = "s" /\ ~cfg.writeAllocate
     THEN [list |-> list, hit |-> FALSE, evicted |-> -1]
     ELSE [list |-> <<tag>> \o (IF full THEN SubSeq(list, 1, Len(list) - 1)
                                ELSE list),
           hit |-> FALSE,
           evicted |-> IF full THEN list[Len(list)] ELSE -1]

\* the tags of the blocks at the positions `rest` of a set by decreasing key
\* (lastAccessTime under LRU, arrivalTime under FIFO)
RECURSIVE RefSorted(_, _, _)
RefSorted(set, useLru, rest) ==
  IF rest = {} THEN << >>
  ELSE \* the position of the greatest key (the highest one on equal keys)
       LET key(b) == IF useLru THEN set[b].lastAccessTime
                     ELSE set[b].arrivalTime
           first == CHOOSE b \in rest : \A c \in rest :
                      \/ c = b
                      \/ key(c) < key(b)
                      \/ (key(c) = key(b) /\ c < b)
       IN <<set[first].tag>> \o RefSorted(set, useLru, rest \ {first})

\* the ordered list a set of the cache stands for: its valid blocks
RefList(set, useLru) ==
  RefSorted(set, useLru, {b \in DOMAIN set : set[b].valid})

\* the tag this step evicted from the cache, or -1
EvictedTag ==
  IF last'.victim # -1 /\ cache[last'.index][last'.victim].valid
  THEN cache[last'.index][last'.victim].tag
  ELSE -1

C16_Step ==
  /\ (pc = "simulate" /\ pc' = "loop") =>
       \A s \in DOMAIN cache' : RefList(cache'[s], config.useLru) = << >>
  /\ Stepped =>
       \A parts \in {extractAddressParts(last'.address, config)} :
       \A before \in {RefList(cache[parts.index], config.useLru)} :
       \A ref \in {RefAccess(before, last'.op, parts.tag, config)} :
         /\ ref.hit = (last'.i # -1)
         /\ ref.evicted = EvictedTag
         /\ ref.list = RefList(cache'[parts.index], config.useLru)
         /\ \A s \in DOMAIN cache : s # parts.index => cache'[s] = cache[s]

\* C16: the cache and the ordered-list reference cache start with empty
\* sets, and on every access they agree on hit or miss and on the tag
\* evicted and are left holding the same tags in the same order (the order
\* of the cache's blocks being that of their timestamps), the other sets
\* being untouched; so they agree on every access of every stream.
C16_ListEquivalence == [][C16_Step]_vars

\* an LRU eviction from the second position of a full set after a hit
C16_Witness ==
  /\ Len(trace) >= 4
  /\ config.useLru
  /\ config.numBlocks = 2
  /\ last.i = -1
  /\ last.victim = 1
  /\ stats.loadHits + stats.storeHits >= 1
  /\ stats.loadMisses + stats.storeMisses >= 3

C17_Prefix ==
  Running =>
    \A s \in DOMAIN cache : \A i, j \in DOMAIN cache[s] :
      (j < i /\ cache[s][i].valid) => cache[s][j].valid

C17_Step ==
  /\ pc = "loop" =>
       \A s \in DOMAIN cache : \A b \in DOMAIN cache[s] :
         cache[s][b].valid => cache'[s][b].valid
  /\ (Stepped /\ last'.victim # -1
        /\ cache[last'.index][last'.victim].valid) =>
       \A b \in DOMAIN cache[last'.index] : cache[last'.index][b].valid

\* C17: the valid blocks of each set occupy a prefix of its positions, a
\* valid block never becomes invalid, and a valid block is replaced only
\* when its set is full.
C17_ValidPrefix == []C17_Prefix /\ [][C17_Step]_vars

\* a block of a full 2-way set replaced by the third install into the set
C17_Witness ==
  /\ Len(trace) >= 3
  /\ config.numSets = 1
  /\ config.numBlocks = 2
  /\ config.writeAllocate
  /\ last.i = -1
  /\ last.victim # -1
  /\ stats.loadMisses + stats.storeMisses >= 3
  /\ cache[0][0].valid /\ cache[0][1].valid

\* C18: under write-through no block is dirty; every dirty block is valid;
\* under write-through totalCycles holds no dirty-victim surcharge: it is the
\* sum of the costs of the hits and misses without it.
C18_WriteThroughClean ==
  Running =>
    /\ \A s \in DOMAIN cache : \A b \in DOMAIN cache[s] :
         cache[s][b].dirty => (cache[s][b].valid /\ ~config.writeThrough)
    /\ config.writeThrough =>
         stats.totalCycles =
           stats.loadHits + stats.loadMisses * (1 + Transfer)
             + stats.storeHits * 101
             + stats.storeMisses * (IF config.writeAllocate
                                    THEN 1 + Transfer + 100 ELSE 101)

\* a write-through run with a store hit, a store miss that installed a block
\* and the replacement of a valid block
C18_Witness ==
  /\ Running
  /\ config.writeThrough
  /\ config.writeAllocate
  /\ config.numSets = 1
  /\ config.numBlocks = 1
  /\ stats.storeHits >= 1
  /\ stats.storeMisses >= 2

\* C19: after a load, and after a store under write-allocate, the access made
\* next is a hit when it has the same tag and index, whichever operation it is.
C19_Step ==
  (/\ Stepped
   /\ Len(trace) >= 1
   /\ (last.op = "l" \/ config.writeAllocate)
   /\ last'.tag = last.tag
   /\ last'.index = last.index) => last'.i # -1

C19_ResidentAfterAccess == [][C19_Step]_vars

\* a store that missed, replacing a valid block, was followed by a hit on
\* another address of the block it installed
C19_Witness ==
  /\ Len(trace) >= 3
  /\ trace[Len(trace) - 1].op = "s"
  /\ trace[Len(trace) - 1].address # last.address
  /\ Decoded(Len(trace) - 1) = [index |-> last.index, tag |-> last.tag]
  /\ last.i # -1
  /\ config.writeAllocate
  /\ config.numSets = 1
  /\ config.numBlocks = 1
  /\ stats.storeMisses >= 1
  /\ stats.loadMisses + stats.storeMisses >= 2
  /\ stats.loadHits + stats.storeHits = 1

C20_Step ==
  Stepped =>
    \A i \in {(last'.address \div config.blockSize) % config.numSets} :
      /\ last'.index = i
      /\ i \in 0..(config.numSets - 1)
      /\ \A s \in DOMAIN cache : s # i => cache'[s] = cache[s]
      /\ Cardinality({b \in DOMAIN cache[i] : cache'[i][b] # cache[i][b]}) <= 1

\* C20: an access whose address decodes to set index i (the block number
\* modulo numSets) changes at most one block, a block of set i; the blocks of
\* every other set are unchanged; and 0 <= i < numSets.
C20_SetFrame == [][C20_Step]_vars

\* an access to set 1 installed a block while set 0 held a valid block
C20_Witness ==
  /\ Len(trace) >= 2
  /\ config.numSets = 2
  /\ last.index = 1
  /\ last.victim # -1
  /\ cache[0][0].valid
  /\ cache[1][last.victim].valid

====
